---- MODULE Spec2Model ----
(***************************************************************************)
(* Playback core of the sorting visualizer: the four step producers        *)
(* (BubbleSort, SelectionSort, InsertionSort, QuickSort), the playback     *)
(* state machine of Visualization / SortingVisualizer, and the timer loop  *)
(* of AnimationController, as wired together by the sorting page.          *)
(*                                                                         *)
(* Arrays are TLA+ sequences (1-based); every index stored in a step       *)
(* (comparing, swapping, sorted, pivot, range, setting) is the 0-based     *)
(* index the code uses.  An absent optional field of a step is << >>       *)
(* (or -1 for pivot).                                                      *)
(***************************************************************************)
EXTENDS Integers, Sequences, FiniteSets, TLC

VARIABLES
  state,             \* Visualization.state
  animationQueue,    \* Visualization.animationQueue
  currentStepIndex,  \* Visualization.currentStepIndex
  metrics,           \* Visualization.metrics
  array,             \* SortingVisualizer.array
  algorithm,         \* SortingVisualizer.algorithm
  isRunning,         \* AnimationController.isRunning
  timeoutId,         \* AnimationController.timeoutId (0 is null)
  pending,           \* timer ids armed by setTimeout and neither fired nor cleared
  attached,          \* AnimationController.visualization is set and its handlers subscribed
  stepDelay,         \* AnimationController.stepDelay
  timerDelay,        \* the delay the pending timer was armed with (Zero: none pending)
  throwing,          \* the subscribers whose callbacks throw
  lastOp,            \* history: the operation that ran last
  events,            \* history: notifications emitted by the last operation, in order
  sortInput,         \* history: the array handed to the producer for this cycle
  result,            \* history: the Result the producer returned for this cycle
  emitted,           \* history: indices carried by stepComplete in this cycle
  rendered,          \* history: steps handed to renderStep in this cycle
  delivered,         \* history: callbacks emit invoked during the last operation
  requested          \* history: the argument of the last operation when it is setSpeed

vars == <<state, animationQueue, currentStepIndex, metrics, array, algorithm,
          isRunning, timeoutId, pending, attached, stepDelay, timerDelay,
          throwing, lastOp, events, sortInput, result, emitted, rendered,
          delivered, requested>>

(***************************************************************************)
(* Bounds                                                                  *)
(***************************************************************************)
\* longest input handed to a producer on its own
MaxLen == 3
\* producer inputs hold values 1..MaxVal
MaxVal == 3
\* config.arraySize of the visualizer on the page
ArraySize == 2
\* performance.now() returns a value in 1..MaxTime
MaxTime == 1
\* the nested reset() at which the call stack gives out
MaxResetDepth == 2
\* renderStep throws at most MaxRenderFaults times in a cycle
MaxRenderFaults == 1
\* setSpeed is called with an integer in -MaxSpeedArg..MaxSpeedArg
MaxSpeedArg == 2
\* slowDown is not called once it would take the delay beyond MaxDelay ms
MaxDelay == 400

(***************************************************************************)
(* Array helpers                                                           *)
(***************************************************************************)
At(a, i) == a[i + 1]

Put(a, i, v) == [a EXCEPT ![i + 1] = v]

Swapped(a, i, j) == [a EXCEPT ![i + 1] = a[j + 1], ![j + 1] = a[i + 1]]

Includes(s, x) == \E k \in 1..Len(s) : s[k] = x

\* Array.from({ length: n }, (_, i) => i)
Iota(n) == [k \in 1..n |-> k - 1]

(***************************************************************************)
(* Steps and the producers' working state                                  *)
(***************************************************************************)
MkStep(action, a, sorted, comparing, swapping, setting, pivot, range) ==
  [action |-> action, array |-> a, sorted |-> sorted, comparing |-> comparing,
   swapping |-> swapping, setting |-> setting, pivot |-> pivot, range |-> range]

SortStart(inputArray, sorted0) ==
  [array |-> inputArray, steps |-> << >>, sorted |-> sorted0,
   comparisons |-> 0, swaps |-> 0, arrayAccesses |-> 0, swapped |-> FALSE]

Push(s, step) == [s EXCEPT !.steps = Append(@, step)]

\* mutant: the completion step lists the indices marked sorted so far
CompleteStepAsMarked(s) ==
  MkStep("complete", s.array, s.sorted, << >>, << >>, << >>, -1, << >>)

CompleteStep(s) ==
  MkStep("complete", s.array, Iota(Len(s.array)), << >>, << >>, << >>, -1, << >>)

Finish(s) ==
  LET t == Push(s, CompleteStep(s))
  IN [steps |-> t.steps, sortedArray |-> t.array, comparisons |-> t.comparisons,
      swaps |-> t.swaps, arrayAccesses |-> t.arrayAccesses]

(***************************************************************************)
(* BubbleSort                                                              *)
(***************************************************************************)
\* mutant: the compare step is emitted but not counted
BubbleCompareUncounted(s, j) ==
  Push([s EXCEPT !.arrayAccesses = @ + 2],
       MkStep("compare", s.array, s.sorted, <<j, j + 1>>, << >>, << >>, -1, << >>))

BubbleCompare(s, j) ==
  Push([s EXCEPT !.arrayAccesses = @ + 2, !.comparisons = @ + 1],
       MkStep("compare", s.array, s.sorted, <<j, j + 1>>, << >>, << >>, -1, << >>))

BubbleSwap(s, j) ==
  LET a == Swapped(s.array, j, j + 1)
  IN Push([s EXCEPT !.array = a, !.swapped = TRUE, !.swaps = @ + 1,
                    !.arrayAccesses = @ + 2],
          MkStep("swap", a, s.sorted, << >>, <<j, j + 1>>, << >>, -1, << >>))

\* mutant: the pass stops one pair short of the unsorted boundary
RECURSIVE BubbleInnerShort(_, _, _)
BubbleInnerShort(s, i, j) ==
  IF j < Len(s.array) - i - 2
  THEN LET c == BubbleCompare(s, j)
           d == IF At(c.array, j) > At(c.array, j + 1) THEN BubbleSwap(c, j) ELSE c
       IN BubbleInnerShort(d, i, j + 1)
  ELSE s

RECURSIVE BubbleInner(_, _, _)
BubbleInner(s, i, j) ==
  IF j < Len(s.array) - i - 1
  THEN LET c == BubbleCompare(s, j)
           d == IF At(c.array, j) > At(c.array, j + 1) THEN BubbleSwap(c, j) ELSE c
       IN BubbleInner(d, i, j + 1)
  ELSE s

RECURSIVE BubbleMarkRest(_, _, _)
BubbleMarkRest(sorted, k, limit) ==
  IF k < limit
  THEN BubbleMarkRest(IF Includes(sorted, k) THEN sorted ELSE Append(sorted, k),
                      k + 1, limit)
  ELSE sorted

\* mutant: no early exit, every pass is run
RECURSIVE BubbleOuterNoEarlyExit(_, _)
BubbleOuterNoEarlyExit(s, i) ==
  LET n == Len(s.array)
  IN IF i < n - 1
     THEN LET p == BubbleInner([s EXCEPT !.swapped = FALSE], i, 0)
              q == [p EXCEPT !.sorted = Append(@, n - i - 1)]
              r == Push(q, MkStep("mark-sorted", q.array, q.sorted,
                                  << >>, << >>, << >>, -1, << >>))
          IN BubbleOuterNoEarlyExit(r, i + 1)
     ELSE s

RECURSIVE BubbleOuter(_, _)
BubbleOuter(s, i) ==
  LET n == Len(s.array)
  IN IF i < n - 1
     THEN LET p == BubbleInner([s EXCEPT !.swapped = FALSE], i, 0)
              q == [p EXCEPT !.sorted = Append(@, n - i - 1)]
              r == Push(q, MkStep("mark-sorted", q.array, q.sorted,
                                  << >>, << >>, << >>, -1, << >>))
          IN IF ~r.swapped
             THEN [r EXCEPT !.sorted = BubbleMarkRest(@, 0, n - i - 1)]
             ELSE BubbleOuter(r, i + 1)
     ELSE s

BubbleSort(inputArray) ==
  LET s == BubbleOuter(SortStart(inputArray, << >>), 0)
      t == IF Includes(s.sorted, 0) THEN s ELSE [s EXCEPT !.sorted = Append(@, 0)]
  IN Finish(t)

(***************************************************************************)
(* SelectionSort                                                           *)
(***************************************************************************)
SelectionCompare(s, i, j, minIndex) ==
  Push([s EXCEPT !.arrayAccesses = @ + 2, !.comparisons = @ + 1],
       MkStep("compare", s.array, s.sorted, <<minIndex, j>>, << >>, << >>, -1,
              <<i, Len(s.array) - 1>>))

\* the scan for the minimum: returns <<working state, minIndex>>
RECURSIVE SelectionInner(_, _, _, _)
SelectionInner(s, i, j, minIndex) ==
  IF j < Len(s.array)
  THEN LET c == SelectionCompare(s, i, j, minIndex)
           m == IF At(c.array, j) < At(c.array, minIndex) THEN j ELSE minIndex
       IN SelectionInner(c, i, j + 1, m)
  ELSE <<s, minIndex>>

SelectionSwap(s, i, minIndex) ==
  LET a == Swapped(s.array, i, minIndex)
  IN Push([s EXCEPT !.array = a, !.swaps = @ + 1, !.arrayAccesses = @ + 2],
          MkStep("swap", a, s.sorted, << >>, <<i, minIndex>>, << >>, -1, << >>))

RECURSIVE SelectionOuter(_, _)
SelectionOuter(s, i) ==
  LET n == Len(s.array)
  IN IF i < n - 1
     THEN LET r == Push([s EXCEPT !.arrayAccesses = @ + 1],
                        MkStep("mark-range", s.array, s.sorted, << >>, << >>, << >>,
                               -1, <<i, n - 1>>))
              f == SelectionInner(r, i, i + 1, i)
              w == IF f[2] # i THEN SelectionSwap(f[1], i, f[2]) ELSE f[1]
              q == [w EXCEPT !.sorted = Append(@, i)]
          IN SelectionOuter(Push(q, MkStep("mark-sorted", q.array, q.sorted,
                                           << >>, << >>, << >>, -1, << >>)),
                            i + 1)
     ELSE s

SelectionSort(inputArray) ==
  LET s == SelectionOuter(SortStart(inputArray, << >>), 0)
  IN Finish([s EXCEPT !.sorted = Append(@, Len(s.array) - 1)])

(***************************************************************************)
(* InsertionSort                                                           *)
(***************************************************************************)
InsertionCompare(s, i, j) ==
  Push([s EXCEPT !.arrayAccesses = @ + 1, !.comparisons = @ + 1],
       MkStep("compare", s.array, s.sorted, <<j, i>>, << >>, << >>, i, << >>))

\* array[j + 1] = array[j]: the shift of one larger predecessor
InsertionShift(s, i, j) ==
  LET a == Put(s.array, j + 1, At(s.array, j))
  IN Push([s EXCEPT !.array = a, !.arrayAccesses = @ + 1, !.swaps = @ + 1],
          MkStep("set", a, s.sorted, << >>, << >>, <<j + 1, At(a, j + 1)>>, i, << >>))

\* the while loop: returns <<working state, j>>
RECURSIVE InsertionWhile(_, _, _, _)
InsertionWhile(s, i, key, j) ==
  IF j >= 0
  THEN LET c == InsertionCompare(s, i, j)
       IN IF At(c.array, j) > key
          THEN InsertionWhile(InsertionShift(c, i, j), i, key, j - 1)
          ELSE <<c, j>>
  ELSE <<s, j>>

\* array[j + 1] = key
InsertionPlace(s, key, j) ==
  LET a == Put(s.array, j + 1, key)
  IN Push([s EXCEPT !.array = a, !.arrayAccesses = @ + 1],
          MkStep("set", a, s.sorted, << >>, << >>, <<j + 1, key>>, -1, << >>))

RECURSIVE InsertionOuter(_, _)
InsertionOuter(s, i) ==
  IF i < Len(s.array)
  THEN LET key == At(s.array, i)
           p == Push([s EXCEPT !.arrayAccesses = @ + 1],
                     MkStep("mark-pivot", s.array, s.sorted, << >>, << >>, << >>,
                            i, << >>))
           w == InsertionWhile(p, i, key, i - 1)
           q == InsertionPlace(w[1], key, w[2])
           r == [q EXCEPT !.sorted = Append(@, i)]
       IN InsertionOuter(Push(r, MkStep("mark-sorted", r.array, r.sorted,
                                        << >>, << >>, << >>, -1, << >>)),
                         i + 1)
  ELSE s

InsertionSort(inputArray) ==
  LET s == SortStart(inputArray, <<0>>)
      m == Push(s, MkStep("mark-sorted", s.array, s.sorted,
                          << >>, << >>, << >>, -1, << >>))
  IN Finish(InsertionOuter(m, 1))

(***************************************************************************)
(* QuickSort                                                               *)
(***************************************************************************)
QuickCompare(s, low, high, j) ==
  Push([s EXCEPT !.arrayAccesses = @ + 1, !.comparisons = @ + 1],
       MkStep("compare", s.array, s.sorted, <<j, high>>, << >>, << >>, high,
              <<low, high>>))

QuickSwap(s, low, high, i, j) ==
  LET a == Swapped(s.array, i, j)
  IN Push([s EXCEPT !.array = a, !.swaps = @ + 1, !.arrayAccesses = @ + 2],
          MkStep("swap", a, s.sorted, << >>, <<i, j>>, << >>, high, <<low, high>>))

\* the partition loop: returns <<working state, i>>
RECURSIVE PartitionLoop(_, _, _, _, _, _)
PartitionLoop(s, low, high, pivot, i, j) ==
  IF j < high
  THEN LET c == QuickCompare(s, low, high, j)
       IN IF At(c.array, j) <= pivot
          THEN LET i2 == i + 1
                   d == IF i2 # j THEN QuickSwap(c, low, high, i2, j) ELSE c
               IN PartitionLoop(d, low, high, pivot, i2, j + 1)
          ELSE PartitionLoop(c, low, high, pivot, i, j + 1)
  ELSE <<s, i>>

PlacePivot(s, low, high, pivotIndex) ==
  LET a == Swapped(s.array, pivotIndex, high)
  IN Push([s EXCEPT !.array = a, !.swaps = @ + 1, !.arrayAccesses = @ + 2],
          MkStep("swap", a, s.sorted, << >>, <<pivotIndex, high>>, << >>, -1,
                 <<low, high>>))

\* returns <<working state, pivotIndex>>
Partition(s, low, high) ==
  LET pivot == At(s.array, high)
      m == Push([s EXCEPT !.arrayAccesses = @ + 1],
                MkStep("mark-pivot", s.array, s.sorted, << >>, << >>, << >>, high,
                       <<low, high>>))
      l == PartitionLoop(m, low, high, pivot, low - 1, low)
      pivotIndex == l[2] + 1
      w == IF pivotIndex # high THEN PlacePivot(l[1], low, high, pivotIndex) ELSE l[1]
      q == [w EXCEPT !.sorted = Append(@, pivotIndex)]
  IN <<Push(q, MkStep("mark-sorted", q.array, q.sorted, << >>, << >>, << >>, -1, << >>)),
       pivotIndex>>

RECURSIVE QuickSortRange(_, _, _)
QuickSortRange(s, low, high) ==
  IF low < high
  THEN LET r == Push(s, MkStep("mark-range", s.array, s.sorted, << >>, << >>, << >>,
                               -1, <<low, high>>))
           p == Partition(r, low, high)
           left == QuickSortRange(p[1], low, p[2] - 1)
       IN QuickSortRange(left, p[2] + 1, high)
  ELSE IF low = high /\ ~Includes(s.sorted, low)
       THEN LET q == [s EXCEPT !.sorted = Append(@, low)]
            IN Push(q, MkStep("mark-sorted", q.array, q.sorted,
                              << >>, << >>, << >>, -1, << >>))
       ELSE s

QuickSort(inputArray) ==
  LET s == SortStart(inputArray, << >>)
  IN Finish(IF Len(inputArray) > 0 THEN QuickSortRange(s, 0, Len(inputArray) - 1) ELSE s)

(***************************************************************************)
(* SORTING_ALGORITHMS and the producer call of generateSteps               *)
(***************************************************************************)
Algorithms == {"bubble-sort", "selection-sort", "insertion-sort", "quick-sort"}

Sort(alg, inputArray) ==
  CASE alg = "bubble-sort" -> BubbleSort(inputArray)
    [] alg = "selection-sort" -> SelectionSort(inputArray)
    [] alg = "insertion-sort" -> InsertionSort(inputArray)
    [] alg = "quick-sort" -> QuickSort(inputArray)

(***************************************************************************)
(* The machine: every field of the visualizer and of the controller that   *)
(* is attached to it, as one record the handlers transform                 *)
(***************************************************************************)
createEmptyMetrics ==
  [comparisons |-> 0, swaps |-> 0, arrayAccesses |-> 0,
   startTime |-> 0, endTime |-> 0, stepsExecuted |-> 0]

NoResult ==
  [sortedArray |-> << >>, comparisons |-> 0, swaps |-> 0, arrayAccesses |-> 0]

Cur ==
  [state |-> state, animationQueue |-> animationQueue,
   currentStepIndex |-> currentStepIndex, metrics |-> metrics, array |-> array,
   algorithm |-> algorithm, isRunning |-> isRunning, timeoutId |-> timeoutId,
   pending |-> pending, attached |-> attached, stepDelay |-> stepDelay,
   timerDelay |-> timerDelay, throwing |-> throwing, events |-> << >>,
   sortInput |-> sortInput, result |-> result, emitted |-> emitted,
   rendered |-> rendered, delivered |-> << >>, requested |-> << >>]

Becomes(m, op) ==
  /\ state' = m.state
  /\ animationQueue' = m.animationQueue
  /\ currentStepIndex' = m.currentStepIndex
  /\ metrics' = m.metrics
  /\ array' = m.array
  /\ algorithm' = m.algorithm
  /\ isRunning' = m.isRunning
  /\ timeoutId' = m.timeoutId
  /\ pending' = m.pending
  /\ attached' = m.attached
  /\ stepDelay' = m.stepDelay
  /\ timerDelay' = m.timerDelay
  /\ throwing' = m.throwing
  /\ events' = m.events
  /\ sortInput' = m.sortInput
  /\ result' = m.result
  /\ emitted' = m.emitted
  /\ rendered' = m.rendered
  /\ delivered' = m.delivered
  /\ requested' = m.requested
  /\ lastOp' = op

\* one notification handed to Visualization.emit
Event(type, st, index, mt) ==
  [type |-> type, state |-> st, index |-> index, metrics |-> mt]

\* the callbacks subscribed through on() besides the controller's: the
\* page's three (Sorting.ts 408-422) and one more, subscribed after them to
\* every notification
Subscribers == {"page", "extra"}

Listeners(type) ==
  IF type \in {"stateChange", "stepComplete", "complete"}
  THEN <<"page", "extra">>
  ELSE <<"extra">>

\* mutant: the first callback that throws ends the forEach
InvokeUnprotected(listeners, type, faulty) ==
  LET ok == {k \in 1..Len(listeners) :
               \A j \in 1..(k - 1) : listeners[j] \notin faulty}
  IN [k \in 1..Cardinality(ok) |->
        [to |-> listeners[k], type |-> type, threw |-> listeners[k] \in faulty]]

\* listeners.forEach with the try/catch around each call: a callback that
\* throws is logged and the next one is called
Invoke(listeners, type, faulty) ==
  [k \in 1..Len(listeners) |->
     [to |-> listeners[k], type |-> type, threw |-> listeners[k] \in faulty]]

Notify(m, ev) ==
  [m EXCEPT !.events = Append(@, ev),
            !.delivered = @ \o Invoke(Listeners(ev.type), ev.type, m.throwing)]

(***************************************************************************)
(* Delays in milliseconds: halving an odd delay gives a fraction, so a     *)
(* delay is the dyadic rational num / den in lowest terms                  *)
(***************************************************************************)
Ms(n) == [num |-> n, den |-> 1]

Zero == Ms(0)

Less(a, b) == a.num * b.den < b.num * a.den

Max(a, b) == IF Less(a, b) THEN b ELSE a

Halve(d) ==
  IF d.num % 2 = 0 THEN [d EXCEPT !.num = @ \div 2] ELSE [d EXCEPT !.den = @ * 2]

Double(d) ==
  IF d.den > 1 THEN [d EXCEPT !.den = @ \div 2] ELSE [d EXCEPT !.num = @ * 2]

(***************************************************************************)
(* AnimationController: the timer loop                                     *)
(***************************************************************************)
\* DEFAULT_ANIMATION_CONFIG.stepDelay
DefaultStepDelay == 100

\* DEFAULT_SPEED_PRESETS, slowest first
SpeedPresets ==
  <<[name |-> "Slow", delayMs |-> 200],
    [name |-> "Normal", delayMs |-> 100],
    [name |-> "Fast", delayMs |-> 50],
    [name |-> "Very Fast", delayMs |-> 20],
    [name |-> "Instant", delayMs |-> 1]>>

\* the handle setTimeout returns: fresh with respect to the one it replaces
NewTimeoutId(m) == IF m.timeoutId = 1 THEN 2 ELSE 1

\* mutant: the loop is marked stopped but the timer is not cleared
StopLoopWithoutClear(m) == [m EXCEPT !.isRunning = FALSE]

StopLoop(m) ==
  IF m.timeoutId # 0
  THEN [m EXCEPT !.isRunning = FALSE, !.pending = @ \ {m.timeoutId},
                 !.timeoutId = 0, !.timerDelay = Zero]
  ELSE [m EXCEPT !.isRunning = FALSE]

Tick(m) ==
  IF ~m.isRunning \/ ~m.attached
  THEN m
  ELSE IF m.state # "playing"
       THEN StopLoop(m)
       ELSE LET id == NewTimeoutId(m)
            IN [m EXCEPT !.timeoutId = id, !.pending = @ \cup {id},
                         !.timerDelay = m.stepDelay]

StartLoop(m) ==
  IF m.isRunning THEN m ELSE Tick([m EXCEPT !.isRunning = TRUE])

\* mutant: the handler starts the loop but never stops it
HandleStateChangeStartOnly(m, st) ==
  IF st = "playing" /\ ~m.isRunning THEN StartLoop(m) ELSE m

HandleStateChange(m, st) ==
  IF st = "playing" /\ ~m.isRunning
  THEN StartLoop(m)
  ELSE IF st # "playing" /\ m.isRunning
       THEN StopLoop(m)
       ELSE m

(***************************************************************************)
(* Visualization: the playback state machine                               *)
(***************************************************************************)
SetState(m, newState) ==
  IF m.state = newState
  THEN m
  ELSE LET e == Notify([m EXCEPT !.state = newState],
                       Event("stateChange", newState, -1, createEmptyMetrics))
       IN IF m.attached THEN HandleStateChange(e, newState) ELSE e

UpdateMetricsFromStep(mt, step) ==
  CASE step.action = "compare" ->
         [mt EXCEPT !.comparisons = @ + 1, !.arrayAccesses = @ + 2]
    [] step.action = "swap" ->
         [mt EXCEPT !.swaps = @ + 1, !.arrayAccesses = @ + 4]
    [] step.action = "set" ->
         [mt EXCEPT !.arrayAccesses = @ + 1 + (IF step.setting # << >> THEN 1 ELSE 0)]
    [] OTHER -> mt

RenderStep(m, step) ==
  [m EXCEPT !.metrics = UpdateMetricsFromStep(@, step),
            !.array = step.array,
            !.rendered = Append(@, step)]

OnComplete(m, now) ==
  LET s == SetState([m EXCEPT !.metrics.endTime = now], "completed")
  IN Notify(s, Event("complete", "", -1, s.metrics))

\* mutant: the cursor is not advanced after the step
ExecuteNextStepNoAdvance(m, now) ==
  IF m.currentStepIndex >= Len(m.animationQueue)
  THEN OnComplete(m, now)
  ELSE LET step == m.animationQueue[m.currentStepIndex + 1]
           r == RenderStep(m, step)
           c == [r EXCEPT !.metrics.stepsExecuted = @ + 1]
           e == Notify(c, Event("stepComplete", "", c.currentStepIndex,
                                createEmptyMetrics))
       IN [e EXCEPT !.emitted = Append(@, c.currentStepIndex)]

\* mutant: the executed step is not counted in stepsExecuted
ExecuteNextStepUncounted(m, now) ==
  IF m.currentStepIndex >= Len(m.animationQueue)
  THEN OnComplete(m, now)
  ELSE LET step == m.animationQueue[m.currentStepIndex + 1]
           r == RenderStep(m, step)
           e == Notify(r, Event("stepComplete", "", r.currentStepIndex,
                                createEmptyMetrics))
       IN [e EXCEPT !.currentStepIndex = @ + 1,
                    !.emitted = Append(@, r.currentStepIndex)]

ExecuteNextStep(m, now) ==
  IF m.currentStepIndex >= Len(m.animationQueue)
  THEN OnComplete(m, now)
  ELSE LET step == m.animationQueue[m.currentStepIndex + 1]
           r == RenderStep(m, step)
           c == [r EXCEPT !.metrics.stepsExecuted = @ + 1]
           e == Notify(c, Event("stepComplete", "", c.currentStepIndex,
                                createEmptyMetrics))
       IN [e EXCEPT !.currentStepIndex = @ + 1,
                    !.emitted = Append(@, c.currentStepIndex)]

\* this.animationQueue = this.generateSteps() and the three lines after it
Materialize(m, now) ==
  LET r == Sort(m.algorithm, m.array)
  IN [m EXCEPT !.animationQueue = r.steps,
               !.currentStepIndex = 0,
               !.metrics = [createEmptyMetrics EXCEPT !.startTime = now],
               !.sortInput = m.array,
               !.result = [sortedArray |-> r.sortedArray,
                           comparisons |-> r.comparisons, swaps |-> r.swaps,
                           arrayAccesses |-> r.arrayAccesses],
               !.emitted = << >>,
               !.rendered = << >>]

\* mutant: start() materializes a new list from paused as well
StartAlwaysMaterializes(m, now) ==
  IF m.state = "playing" THEN m ELSE SetState(Materialize(m, now), "playing")

\* mutant: start() does not stamp startTime
StartWithoutStamp(m, now) ==
  IF m.state = "playing"
  THEN m
  ELSE SetState(IF m.state \in {"idle", "completed"}
                THEN [Materialize(m, now) EXCEPT !.metrics.startTime = 0]
                ELSE m,
                "playing")

\* mutant: start() from paused rewinds the cursor
StartRewindsPaused(m, now) ==
  IF m.state = "playing"
  THEN m
  ELSE SetState(IF m.state \in {"idle", "completed"}
                THEN Materialize(m, now)
                ELSE [m EXCEPT !.currentStepIndex = 0],
                "playing")

StartOf(m, now) ==
  IF m.state = "playing"
  THEN m
  ELSE SetState(IF m.state \in {"idle", "completed"} THEN Materialize(m, now) ELSE m,
                "playing")

\* mutant: pause() without its guard
PauseUnguarded(m) == SetState(m, "paused")

PauseOf(m) == IF m.state # "playing" THEN m ELSE SetState(m, "paused")

\* mutant: resume() rewinds to the first step
ResumeRewinds(m) ==
  IF m.state # "paused"
  THEN m
  ELSE SetState([m EXCEPT !.currentStepIndex = 0], "playing")

ResumeOf(m) == IF m.state # "paused" THEN m ELSE SetState(m, "playing")

\* mutant: step() does not force the state to paused
StepWithoutPause(m, now) ==
  IF m.state = "completed"
  THEN m
  ELSE ExecuteNextStep(IF m.state = "idle" THEN Materialize(m, now) ELSE m, now)

StepOf(m, now) ==
  IF m.state = "completed"
  THEN m
  ELSE SetState(ExecuteNextStep(IF m.state = "idle" THEN Materialize(m, now) ELSE m,
                                now),
                "paused")

\* mutant: reset() leaves the step list in place
ResetBodyKeepsQueue(m, newArray) ==
  LET c == [m EXCEPT !.currentStepIndex = 0,
                     !.metrics = createEmptyMetrics,
                     !.sortInput = << >>,
                     !.result = NoResult,
                     !.emitted = << >>,
                     !.rendered = << >>]
  IN Notify([SetState(c, "idle") EXCEPT !.array = newArray],
            Event("reset", "", -1, createEmptyMetrics))

\* mutant: reset() leaves the metrics in place
ResetBodyKeepsMetrics(m, newArray) ==
  LET c == [m EXCEPT !.animationQueue = << >>,
                     !.currentStepIndex = 0,
                     !.sortInput = << >>,
                     !.result = NoResult,
                     !.emitted = << >>,
                     !.rendered = << >>]
  IN Notify([SetState(c, "idle") EXCEPT !.array = newArray],
            Event("reset", "", -1, createEmptyMetrics))

\* The body of reset() up to its emit('reset'); cancelAnimation() is a no-op
\* because animationFrameId is never set.  initialize() installs newArray.
ResetBody(m, newArray) ==
  LET c == [m EXCEPT !.animationQueue = << >>,
                     !.currentStepIndex = 0,
                     !.metrics = createEmptyMetrics,
                     !.sortInput = << >>,
                     !.result = NoResult,
                     !.emitted = << >>,
                     !.rendered = << >>]
  IN Notify([SetState(c, "idle") EXCEPT !.array = newArray],
            Event("reset", "", -1, createEmptyMetrics))

\* reset() with the controller's handleReset subscribed: the handler calls
\* stop(), which stops the loop and calls reset() again; the nesting ends when
\* the call stack is exhausted at some depth and emit's try/catch swallows
\* the RangeError.  Every nested call assigns the same values, so the point
\* at which it is cut short does not show in the fields modelled here.
RECURSIVE ResetOf(_, _, _)
ResetOf(m, newArray, depth) ==
  LET b == ResetBody(m, newArray)
  IN IF m.attached /\ depth > 1
     THEN ResetOf(StopLoop(b), newArray, depth - 1)
     ELSE b

(***************************************************************************)
(* AnimationController: the inter-step delay                               *)
(***************************************************************************)
\* mutant: setSpeed stores the delay as given
SetSpeedWithoutFloor(m, delay) == [m EXCEPT !.stepDelay = delay]

\* setSpeed(delayMs); the speedChange it emits goes to the controller's own
\* listeners, of which the page subscribes none
SetSpeedOf(m, delay) == [m EXCEPT !.stepDelay = Max(Ms(1), delay)]

\* setSpeedPreset(name): the first preset of that name, a warning if none
SetSpeedPresetOf(m, name) ==
  LET found == {k \in 1..Len(SpeedPresets) : SpeedPresets[k].name = name}
  IN IF found = {}
     THEN m
     ELSE SetSpeedOf(m, Ms(SpeedPresets[CHOOSE k \in found :
                                          \A j \in found : k <= j].delayMs))

\* speedPresets.findIndex(p => p.delayMs === stepDelay), 0-based, -1 if none
FindIndex(delay) ==
  LET found == {k \in 1..Len(SpeedPresets) : Ms(SpeedPresets[k].delayMs) = delay}
  IN IF found = {} THEN -1 ELSE (CHOOSE k \in found : \A j \in found : k <= j) - 1

SpeedUpOf(m) ==
  LET currentIndex == FindIndex(m.stepDelay)
  IN IF currentIndex >= 0 /\ currentIndex < Len(SpeedPresets) - 1
     THEN SetSpeedOf(m, Ms(SpeedPresets[currentIndex + 2].delayMs))
     ELSE SetSpeedOf(m, Max(Ms(1), Halve(m.stepDelay)))

SlowDownOf(m) ==
  LET currentIndex == FindIndex(m.stepDelay)
  IN IF currentIndex > 0
     THEN SetSpeedOf(m, Ms(SpeedPresets[currentIndex].delayMs))
     ELSE SetSpeedOf(m, Double(m.stepDelay))

\* AnimationController.destroy(): detach() returns at once when nothing is
\* attached; otherwise stop() (stopLoop, then reset() with the handlers
\* still subscribed), then off() for both handlers and visualization = null
DestroyOf(m, newArray, depth) ==
  IF ~m.attached
  THEN m
  ELSE [ResetOf(StopLoop(m), newArray, depth) EXCEPT !.attached = FALSE]

(***************************************************************************)
(* The same calls when something they call throws                          *)
(***************************************************************************)
\* mutant: the transition is made before the producer is called
StartThrowsAfterTransition(m) ==
  IF m.state = "playing" THEN m ELSE SetState(m, "playing")

\* start() with a producer that throws: generateSteps() raises at
\* Visualization.ts:188 before its result is assigned, and the exception
\* leaves start(); from paused the producer is not called
StartProducerThrows(m) ==
  IF m.state = "playing"
  THEN m
  ELSE IF m.state \in {"idle", "completed"} THEN m ELSE SetState(m, "playing")

\* step() with a producer that throws (Visualization.ts:220); the producer
\* is called from idle only
StepProducerThrows(m, now) ==
  IF m.state = "completed"
  THEN m
  ELSE IF m.state = "idle"
       THEN m
       ELSE SetState(ExecuteNextStep(m, now), "paused")

\* the statements of renderStep() that can raise: the counting of the step,
\* the copy of data.array, the bar update and canvas render after them
RenderPoints == {"updateMetricsFromStep", "array", "render"}

\* renderStep() raising at one of its statements: what ran before stays done
RenderStepThrows(m, step, point) ==
  LET h == [m EXCEPT !.rendered = Append(@, step)]
  IN CASE point = "updateMetricsFromStep" -> h
       [] point = "array" ->
            [h EXCEPT !.metrics = UpdateMetricsFromStep(@, step)]
       [] point = "render" ->
            [h EXCEPT !.metrics = UpdateMetricsFromStep(@, step),
                      !.array = step.array]

\* executeNextStep() and the rest of step() when renderStep() throws:
\* nothing catches it in executeNextStep() (Visualization.ts:258) or in
\* step(), so the statements after the call (stepsExecuted++, emit,
\* currentStepIndex++, setState('paused')) do not run; past the end of the
\* list no step is rendered and the call completes
ExecuteNextStepRenderThrows(m, now, point) ==
  IF m.currentStepIndex >= Len(m.animationQueue)
  THEN SetState(OnComplete(m, now), "paused")
  ELSE RenderStepThrows(m, m.animationQueue[m.currentStepIndex + 1], point)

\* step() when renderStep() throws
StepRenderThrows(m, now, point) ==
  IF m.state = "completed"
  THEN m
  ELSE ExecuteNextStepRenderThrows(
         IF m.state = "idle" THEN Materialize(m, now) ELSE m, now, point)

(***************************************************************************)
(* Inputs                                                                  *)
(***************************************************************************)
\* generateRandomArray(): arraySize values between config.minValue and
\* config.maxValue, of which a low and a high one stand for the range (the
\* playback machine never looks at a value; the producers are run on
\* SortInputs as well)
PlayValues == {1, 2}

PlayArrays == [1..ArraySize -> PlayValues]

SortInputs == UNION {[1..n -> 1..MaxVal] : n \in 0..MaxLen}

Times == 1..MaxTime

\* performance.now() does not run backwards within a cycle
Clock(m) == {now \in Times : now >= m.metrics.startTime}

\* how many times reset() runs in one call: the stack limit of the runtime
ResetDepths == {MaxResetDepth}

(***************************************************************************)
(* Operations                                                              *)
(***************************************************************************)
Start == \E now \in Times : Becomes(StartOf(Cur, now), "start")

Pause == Becomes(PauseOf(Cur), "pause")

Resume == Becomes(ResumeOf(Cur), "resume")

Step == \E now \in Clock(Cur) : Becomes(StepOf(Cur, now), "step")

Reset ==
  \E newArray \in PlayArrays, depth \in ResetDepths :
    Becomes(ResetOf(Cur, newArray, depth), "reset")

\* the setTimeout callback of the controller
TimerFires ==
  \E id \in pending :
    Becomes(Tick([Cur EXCEPT !.pending = @ \ {id}, !.timerDelay = Zero]), "timer")

\* the controller is destroyed; the visualizer stays usable
Destroy ==
  \E newArray \in PlayArrays, depth \in ResetDepths :
    Becomes(DestroyOf(Cur, newArray, depth), "destroy")

\* the page's generate button
GenerateRandomArray ==
  \E newArray \in PlayArrays : Becomes([Cur EXCEPT !.array = newArray], "generate")

\* the page's algorithm selector: setAlgorithm, then reset
AlgorithmChange ==
  \E alg \in Algorithms, newArray \in PlayArrays, depth \in ResetDepths :
    Becomes(ResetOf([Cur EXCEPT !.algorithm = alg], newArray, depth), "algorithm")

InitMachine ==
  /\ state = "idle"
  /\ animationQueue = << >>
  /\ currentStepIndex = 0
  /\ metrics = createEmptyMetrics
  /\ isRunning = FALSE
  /\ timeoutId = 0
  /\ pending = {}
  /\ attached = TRUE
  /\ stepDelay = Ms(DefaultStepDelay)
  /\ timerDelay = Zero
  /\ delivered = << >>
  /\ requested = << >>
  /\ lastOp = "init"
  /\ events = << >>
  /\ sortInput = << >>
  /\ result = NoResult
  /\ emitted = << >>
  /\ rendered = << >>

Init ==
  /\ InitMachine
  /\ array \in PlayArrays
  /\ algorithm = "bubble-sort"
  /\ throwing = {}

Next ==
  \/ Start
  \/ Pause
  \/ Resume
  \/ Step
  \/ Reset
  \/ TimerFires
  \/ GenerateRandomArray
  \/ AlgorithmChange

Spec == Init /\ [][Next]_vars

(***************************************************************************)
(* The controller's life: the playback calls, and destroy() at any point   *)
(***************************************************************************)
NextCore ==
  \/ Start
  \/ Pause
  \/ Resume
  \/ Step
  \/ Reset
  \/ TimerFires

NextController ==
  \/ NextCore
  \/ Destroy

SpecController == Init /\ [][NextController]_vars

(***************************************************************************)
(* The producers on their own: any bounded input, any algorithm, and the   *)
(* step list start() materializes from it                                  *)
(***************************************************************************)
InitSort ==
  /\ InitMachine
  /\ array \in SortInputs
  /\ algorithm \in Algorithms
  /\ throwing = {}

NextSort == Start

SpecSort == InitSort /\ [][NextSort]_vars

(***************************************************************************)
(* Automatic playback: the page is set up, start() is called, and from     *)
(* then on only the controller's timer runs; an armed timer fires          *)
(***************************************************************************)
BeforeStart == state = "idle" /\ (GenerateRandomArray \/ AlgorithmChange)

NextAuto ==
  \/ BeforeStart
  \/ Start
  \/ TimerFires

LiveSpec == Init /\ [][NextAuto]_vars /\ WF_vars(TimerFires)

(***************************************************************************)
(* The exchange-sort scenario: the page playing bubble sort on the         *)
(* five-element array [5,3,1,4,2] installed by setArray                    *)
(***************************************************************************)
ScenarioArray == <<5, 3, 1, 4, 2>>

InitScenario ==
  /\ InitMachine
  /\ array = ScenarioArray
  /\ algorithm = "bubble-sort"
  /\ throwing = {}

SpecScenario == InitScenario /\ [][NextCore]_vars

(***************************************************************************)
(* Speed: the delay is changed at any point before and during playback     *)
(***************************************************************************)
SpeedArgs == (0 - MaxSpeedArg)..MaxSpeedArg

PresetNames == {SpeedPresets[k].name : k \in 1..Len(SpeedPresets)}

SetSpeed ==
  \E delayMs \in SpeedArgs :
    Becomes([SetSpeedOf(Cur, Ms(delayMs)) EXCEPT !.requested = <<delayMs>>],
            "setSpeed")

SetSpeedPreset ==
  \E name \in PresetNames \cup {"Slowest"} :
    Becomes(SetSpeedPresetOf(Cur, name), "setSpeedPreset")

SpeedUp == Becomes(SpeedUpOf(Cur), "speedUp")

SlowDown ==
  /\ ~Less(Ms(MaxDelay), Double(stepDelay))
  /\ Becomes(SlowDownOf(Cur), "slowDown")

NextSpeed ==
  \/ Start
  \/ TimerFires
  \/ SetSpeed
  \/ SetSpeedPreset
  \/ SpeedUp
  \/ SlowDown

SpecSpeed == Init /\ [][NextSpeed]_vars

(***************************************************************************)
(* Faults: a producer that throws, a renderer that throws, around the      *)
(* calls of the playback machine                                           *)
(***************************************************************************)
StartThrows == Becomes(StartProducerThrows(Cur), "start-throws")

StepThrows ==
  \E now \in Clock(Cur) : Becomes(StepProducerThrows(Cur, now), "step-throws")

RenderThrows ==
  /\ Len(rendered) - Len(emitted) < MaxRenderFaults
  /\ \E now \in Clock(Cur), point \in RenderPoints :
       Becomes(StepRenderThrows(Cur, now, point), "render-throws")

NextFaults ==
  \/ NextCore
  \/ StartThrows
  \/ StepThrows
  \/ RenderThrows

SpecFaults == Init /\ [][NextFaults]_vars

\* the playback calls with some of the subscribers throwing
InitSubscribers ==
  /\ InitMachine
  /\ array \in PlayArrays
  /\ algorithm = "bubble-sort"
  /\ throwing \in SUBSET Subscribers

SpecSubscribers == InitSubscribers /\ [][NextCore]_vars

(***************************************************************************)
(* Properties                                                              *)
(***************************************************************************)
SortedAscending(a) == \A k \in 1..(Len(a) - 1) : a[k] <= a[k + 1]

Count(a, v) == Cardinality({k \in 1..Len(a) : a[k] = v})

Range(a) == {a[k] : k \in 1..Len(a)}

SameMultiset(a, b) ==
  /\ Len(a) = Len(b)
  /\ \A v \in Range(a) \cup Range(b) : Count(a, v) = Count(b, v)

HasEvent(type) == \E k \in 1..Len(events) : events[k].type = type

\* C1: after start() on an idle visualization with the controller attached,
\* with the timer firing whenever armed and no other operation, every step
\* of the list is executed and the machine reaches completed.
C1_AutoPlaybackCompletes ==
  (lastOp = "start" /\ state = "playing")
    ~> (state = "completed" /\ currentStepIndex = Len(animationQueue))

\* C2: for every producer and input, Result.sortedArray is ascending and
\* holds the same multiset of values as the input.
C2_SortedPermutation ==
  lastOp = "start" =>
    /\ SortedAscending(result.sortedArray)
    /\ SameMultiset(result.sortedArray, sortInput)

C2_Witness ==
  /\ lastOp = "start"
  /\ algorithm = "quick-sort"
  /\ sortInput = <<3, 1, 3>>
  /\ result.sortedArray = <<1, 3, 3>>

\* C3: every emitted step's array has the length and the multiset of values
\* of the input.
C3_EveryStepConserves ==
  \A k \in 1..Len(animationQueue) :
    SameMultiset(animationQueue[k].array, sortInput)

\* C4: within a cycle the step-complete notifications carry 0, 1, 2, ... and
\* the k-th step rendered is the k-th step of the list: none skipped, none
\* executed twice, whatever start, pause, resume, step and timer did between.
C4_StepsInProducerOrder ==
  /\ Len(emitted) = Len(rendered)
  /\ Len(rendered) <= Len(animationQueue)
  /\ \A k \in 1..Len(emitted) :
       emitted[k] = k - 1 /\ rendered[k] = animationQueue[k]
  /\ \A k \in 1..Len(events) :
       events[k].type = "stepComplete" => events[k].index = Len(emitted) - 1

C4_Witness ==
  /\ lastOp = "timer"
  /\ state = "playing"
  /\ Len(emitted) >= 2

\* C5: pause() and resume() leave the cursor and the step list as they are,
\* and the step executed right after a resume() at cursor k is step k.
C5_PauseResumeKeepsCursor ==
  [][/\ lastOp' \in {"pause", "resume"} =>
          /\ currentStepIndex' = currentStepIndex
          /\ animationQueue' = animationQueue
          /\ emitted' = emitted
          /\ rendered' = rendered
     /\ (lastOp = "resume" /\ lastOp' = "step"
           /\ currentStepIndex < Len(animationQueue)) =>
          /\ emitted' = Append(emitted, currentStepIndex)
          /\ rendered' = Append(rendered, animationQueue[currentStepIndex + 1])
          /\ currentStepIndex' = currentStepIndex + 1]_vars

C5_Witness ==
  /\ lastOp = "resume"
  /\ state = "playing"
  /\ HasEvent("stateChange")
  /\ currentStepIndex >= 1
  /\ currentStepIndex < Len(animationQueue)

\* what a listener of 'complete' sees: the machine in completed
AsCompleted == [Cur EXCEPT !.state = "completed"]

\* C6: step() from idle, playing or paused ends paused; step() from completed
\* executes nothing, emits nothing and stays completed.
C6_StepLeavesPaused ==
  /\ [][lastOp' = "step" =>
          IF state = "completed"
          THEN state' = "completed" /\ events' = << >>
               /\ currentStepIndex' = currentStepIndex /\ metrics' = metrics
          ELSE state' = "paused"]_vars
  /\ [](\A now \in Times : StepOf(AsCompleted, now) = AsCompleted)

C6_Witness ==
  /\ lastOp = "step"
  /\ state = "paused"
  /\ Len(emitted) >= 2
  /\ Len(events) = 2
  /\ events[1].type = "stepComplete"
  /\ events[2].type = "stateChange"

PlaybackView(m) ==
  <<m.state, m.metrics, m.animationQueue, m.currentStepIndex, m.isRunning,
    m.timeoutId, m.pending>>

\* C7: from any state, reset() twice in a row leaves the same playback
\* state as reset() once: idle, all-zero metrics, empty step list, cursor 0,
\* no timer armed.
IdleView == <<"idle", createEmptyMetrics, << >>, 0, FALSE, 0, {}>>

C7_ResetIdempotent ==
  \A a1 \in PlayArrays, d1 \in ResetDepths :
    LET once == ResetOf(Cur, a1, d1)
    IN /\ PlaybackView(once) = IdleView
       /\ \A a2 \in PlayArrays, d2 \in ResetDepths :
            PlaybackView(ResetOf(once, a2, d2)) = PlaybackView(once)

C7_Witness ==
  /\ lastOp = "reset"
  /\ ~HasEvent("stateChange")
  /\ state = "idle"

\* C8: reset() leaves no timer armed, an empty step list, cursor 0, all-zero
\* metrics and state idle; so does start(), one timer firing, pause(),
\* reset() from idle.
C8_ResetClearsEverything ==
  /\ lastOp = "reset" =>
       /\ state = "idle"
       /\ animationQueue = << >>
       /\ currentStepIndex = 0
       /\ metrics = createEmptyMetrics
       /\ pending = {}
       /\ timeoutId = 0
       /\ ~isRunning
  /\ state = "idle" =>
       \A now \in Times, a \in PlayArrays, d \in ResetDepths :
         LET started == StartOf(Cur, now)
             fired == Tick([started EXCEPT !.pending = @ \ {started.timeoutId}])
             paused == PauseOf(fired)
             after == ResetOf(paused, a, d)
         IN /\ started.pending = {started.timeoutId}
            /\ paused.state = "paused"
            /\ after.state = "idle"
            /\ after.metrics = createEmptyMetrics
            /\ after.pending = {}

C8_Witness ==
  /\ lastOp = "reset"
  /\ Len(events) >= 2
  /\ events[1].type = "stateChange"
  /\ events[1].state = "idle"

\* the operations that open a cycle or end one
OpensCycle ==
  \/ lastOp' \in {"reset", "algorithm"}
  \/ lastOp' = "start" /\ state \in {"idle", "completed"}
  \/ lastOp' = "step" /\ state = "idle"

\* C9: within a cycle stepsExecuted, comparisons, swaps and arrayAccesses
\* never decrease.
C9_MetricsMonotone ==
  [][~OpensCycle =>
       /\ metrics'.stepsExecuted >= metrics.stepsExecuted
       /\ metrics'.comparisons >= metrics.comparisons
       /\ metrics'.swaps >= metrics.swaps
       /\ metrics'.arrayAccesses >= metrics.arrayAccesses]_vars

C9_Witness ==
  /\ lastOp = "step"
  /\ metrics.stepsExecuted >= 2
  /\ metrics.comparisons >= 1
  /\ metrics.swaps >= 1

\* C10: once every step has executed and the machine has finalized, the
\* metrics' comparisons, swaps and arrayAccesses equal the Result's.
C10_FinalMetricsEqualResult ==
  (HasEvent("complete") /\ currentStepIndex = Len(animationQueue)) =>
    /\ metrics.comparisons = result.comparisons
    /\ metrics.swaps = result.swaps
    /\ metrics.arrayAccesses = result.arrayAccesses

\* the playback state an invalid call must leave alone
Untouched ==
  /\ UNCHANGED <<state, animationQueue, currentStepIndex, metrics>>
  /\ events' = << >>

StateChangeTo(st) == Event("stateChange", st, -1, createEmptyMetrics)

\* a machine that has just materialized: the producer's list for the array
\* at hand, cursor 0, metrics zero but for the startTime stamp, playing
Materialized(s, alg, input, stamps) ==
  /\ s.animationQueue = Sort(alg, input).steps
  /\ s.currentStepIndex = 0
  /\ s.metrics.startTime \in stamps
  /\ s.metrics = [createEmptyMetrics EXCEPT !.startTime = s.metrics.startTime]
  /\ s.state = "playing"

\* C11: start() while playing changes nothing and emits nothing; start()
\* from idle or completed installs the producer's list for the current
\* array, cursor 0, zeroed metrics with startTime stamped, and goes to
\* playing with one state-changed notification.
C11_StartMaterializes ==
  /\ [][lastOp' = "start" =>
          /\ state = "playing" => Untouched
          /\ state = "idle" =>
               /\ Materialized(Cur', algorithm, array, Times)
               /\ events' = <<StateChangeTo("playing")>>]_vars
  /\ [](\A now \in Times :
          LET s == StartOf(AsCompleted, now)
          IN /\ Materialized(s, algorithm, array, {now})
             /\ s.events = <<StateChangeTo("playing")>>)

C11_Witness ==
  /\ lastOp = "start"
  /\ state = "playing"
  /\ events = <<StateChangeTo("playing")>>
  /\ animationQueue = Sort(algorithm, array).steps
  /\ metrics.startTime \in Times
  /\ metrics.stepsExecuted = 0
  /\ pending # {}

\* C12: pause() outside playing and resume() outside paused leave the
\* state, the step list, the cursor, the metrics and the timer as they
\* were and emit nothing.
C12_InvalidOpsAreNoOps ==
  /\ [][/\ (lastOp' = "pause" /\ state # "playing") =>
            Untouched /\ UNCHANGED <<isRunning, timeoutId, pending>>
        /\ (lastOp' = "resume" /\ state # "paused") =>
            Untouched /\ UNCHANGED <<isRunning, timeoutId, pending>>]_vars
  /\ [](PauseOf(AsCompleted) = AsCompleted /\ ResumeOf(AsCompleted) = AsCompleted)

C12_Witness ==
  /\ lastOp = "pause"
  /\ state = "idle"
  /\ events = << >>

\* C13: when the producer throws inside start() or step(), the state, the
\* step list, the cursor and the metrics are those from before the call and
\* no notification is emitted.
C13_ProducerThrowAborts ==
  /\ [][(lastOp' \in {"start-throws", "step-throws"} /\ state = "idle") =>
          Untouched]_vars
  /\ [](StartProducerThrows(AsCompleted) = AsCompleted)

C13_Witness ==
  /\ lastOp = "start-throws"
  /\ state = "idle"
  /\ animationQueue = << >>
  /\ events = << >>

\* C14: when renderStep throws while step() executes a step, the step is
\* still counted in stepsExecuted, step-complete is still emitted and the
\* cursor still advances.
C14_RendererErrorContained ==
  [][(/\ lastOp' = "render-throws"
      /\ state \in {"playing", "paused"}
      /\ currentStepIndex < Len(animationQueue)) =>
       /\ metrics'.stepsExecuted = metrics.stepsExecuted + 1
       /\ currentStepIndex' = currentStepIndex + 1
       /\ \E k \in 1..Len(events') : events'[k].type = "stepComplete"]_vars

EventTypes == {"stateChange", "stepComplete", "complete", "reset"}

\* how often the last operation emitted a notification, and how often a
\* subscriber's callback for it was called
Emitted(type) == Cardinality({k \in 1..Len(events) : events[k].type = type})

Notified(s, type) ==
  Cardinality({k \in 1..Len(delivered) :
                 delivered[k].to = s /\ delivered[k].type = type})

WithoutFaults == [Cur EXCEPT !.throwing = {}]

SameOutcome(a, b) ==
  /\ a.state = b.state
  /\ a.currentStepIndex = b.currentStepIndex
  /\ a.metrics = b.metrics
  /\ a.animationQueue = b.animationQueue
  /\ a.pending = b.pending

Cancels == {"pause", "reset", "destroy"}

\* C16: after pause(), reset() or destroy() no timer callback is pending and
\* none fires next; the same operation once more changes nothing of the
\* playback state or the timer.
C16_CancellationIsFinal ==
  [][/\ lastOp' \in Cancels =>
          /\ pending' = {}
          /\ timeoutId' = 0
          /\ ~isRunning'
          /\ timerDelay' = Zero
     /\ lastOp \in Cancels => lastOp' # "timer"
     /\ (lastOp \in Cancels /\ lastOp' = lastOp) =>
          UNCHANGED <<state, animationQueue, currentStepIndex, metrics,
                      isRunning, timeoutId, pending, timerDelay, attached>>]_vars

C16_Witness ==
  /\ lastOp = "destroy"
  /\ ~attached
  /\ HasEvent("stateChange")
  /\ pending = {}

\* C17: a timer callback is pending, or the loop marked running, only while
\* the state is playing and the controller attached.
C17_TimerOnlyWhilePlaying ==
  (pending # {} \/ isRunning \/ timeoutId # 0) => (state = "playing" /\ attached)

C17_Witness ==
  /\ lastOp = "pause"
  /\ state = "paused"
  /\ attached
  /\ ~isRunning
  /\ pending = {}

SpeedOps == {"setSpeed", "setSpeedPreset", "speedUp", "slowDown"}

\* C18: when the delay changes while the machine is playing with a timer
\* pending, that timer is cancelled and another is armed at once with the
\* new delay.
C18_SpeedChangeReschedules ==
  [][(/\ lastOp' \in SpeedOps
      /\ state = "playing"
      /\ pending # {}
      /\ stepDelay' # stepDelay) =>
       /\ pending' # {}
       /\ pending' \cap pending = {}
       /\ timerDelay' = stepDelay']_vars

\* C19: the delay is never below 1 ms, whatever setSpeed, setSpeedPreset,
\* speedUp and slowDown calls were made.
C19_DelayAtLeastOne == ~Less(stepDelay, Ms(1))

C19_Witness ==
  /\ lastOp = "setSpeed"
  /\ requested = <<0>>
  /\ stepDelay = Ms(1)

\* C20: the last step of every producer's list, and no other, is a complete
\* step; it lists the indices 0..n-1 as sorted and its array is
\* Result.sortedArray, the input in ascending order.
C20_FinalStepComplete ==
  lastOp = "start" =>
    LET count == Len(animationQueue)
    IN /\ count >= 1
       /\ \A k \in 1..count : (animationQueue[k].action = "complete") <=> (k = count)
       /\ animationQueue[count].sorted = Iota(Len(sortInput))
       /\ animationQueue[count].array = result.sortedArray
       /\ SortedAscending(result.sortedArray)
       /\ SameMultiset(result.sortedArray, sortInput)

C20_Witness ==
  /\ lastOp = "start"
  /\ algorithm = "insertion-sort"
  /\ sortInput = <<2, 1, 3>>
  /\ Len(animationQueue) >= 2
  /\ animationQueue[Len(animationQueue)].action = "complete"
  /\ animationQueue[Len(animationQueue)].sorted = <<0, 1, 2>>
  /\ animationQueue[Len(animationQueue)].array = <<1, 2, 3>>

\* C21: for every producer an empty input yields a list of one step, a
\* complete step, and a Result whose three counters are zero.
C21_EmptyInputOneStep ==
  (lastOp = "start" /\ sortInput = << >>) =>
    /\ Len(animationQueue) = 1
    /\ animationQueue[1].action = "complete"
    /\ result.comparisons = 0
    /\ result.swaps = 0
    /\ result.arrayAccesses = 0

CountAction(steps, action) ==
  Cardinality({k \in 1..Len(steps) : steps[k].action = action})

\* C22: bubble sort on [5,3,1,4,2] returns [1,2,3,4,5]; its first step is a
\* compare of indices 0 and 1; Result.comparisons is 10, the number of
\* compare steps in the list.
C22_BubbleScenario ==
  (sortInput = ScenarioArray /\ algorithm = "bubble-sort") =>
    /\ result.sortedArray = <<1, 2, 3, 4, 5>>
    /\ animationQueue[1].action = "compare"
    /\ animationQueue[1].comparing = <<0, 1>>
    /\ result.comparisons = 10
    /\ CountAction(animationQueue, "compare") = 10

C22_Witness ==
  /\ lastOp = "start"
  /\ sortInput = ScenarioArray
  /\ algorithm = "bubble-sort"
  /\ result.comparisons = 10
  /\ Len(animationQueue) > 10

\* C23: when a step is executed with the cursor at or past the end of the
\* list, nothing is rendered, the cursor and stepsExecuted keep their
\* values, endTime is stamped, complete is notified with the final metrics,
\* and the machine is completed when the operation returns.
C23_FinalizationCompletes ==
  [][(/\ lastOp' = "step"
      /\ state \in {"playing", "paused"}
      /\ currentStepIndex >= Len(animationQueue)) =>
        /\ rendered' = rendered
        /\ currentStepIndex' = currentStepIndex
        /\ metrics'.stepsExecuted = metrics.stepsExecuted
        /\ metrics'.endTime \in Times
        /\ \E k \in 1..Len(events') :
             events'[k] = Event("complete", "", -1, metrics')
        /\ state' = "completed"]_vars

\* C24: every index listed in a step's sorted field is an index of the array
\* and is finalized: the step's snapshot holds the final value there, and so
\* does the snapshot of every later step.
C24_SortedIndicesFinal ==
  lastOp = "start" =>
    \A k \in 1..Len(animationQueue) :
      \A p \in 1..Len(animationQueue[k].sorted) :
        LET idx == animationQueue[k].sorted[p]
        IN /\ idx >= 0
           /\ idx < Len(sortInput)
           /\ \A j \in k..Len(animationQueue) :
                At(animationQueue[j].array, idx) = At(result.sortedArray, idx)

\* the pass a step of the bubble-sort list belongs to: one more than the
\* number of mark-sorted steps before it
PassOf(steps, k) ==
  1 + Cardinality({j \in 1..(k - 1) : steps[j].action = "mark-sorted"})

InPass(steps, p, action) ==
  {k \in 1..Len(steps) : steps[k].action = action /\ PassOf(steps, k) = p}

\* C25: in the bubble-sort list each pass compares the adjacent pairs
\* (0,1), (1,2), ... in order up to a boundary that is one lower in each
\* pass; after a pass without a swap no compare or swap follows, and the
\* indices the passes have not marked are all marked in the one step that
\* follows.
C25_BubblePasses ==
  (lastOp = "start" /\ algorithm = "bubble-sort") =>
    LET steps == animationQueue
        n == Len(sortInput)
        last == Len(steps)
    IN \A k \in 1..last :
         LET p == PassOf(steps, k)
         IN /\ steps[k].action = "compare" =>
                 LET c == Cardinality({j \in InPass(steps, p, "compare") : j < k})
                 IN /\ steps[k].comparing = <<c, c + 1>>
                    /\ c + 1 <= n - p
                    /\ InPass(steps, p, "mark-sorted") # {}
            /\ steps[k].action = "swap" =>
                 /\ steps[k - 1].action = "compare"
                 /\ steps[k].swapping = steps[k - 1].comparing
            /\ steps[k].action = "mark-sorted" =>
                 /\ Cardinality(InPass(steps, p, "compare")) = n - p
                 /\ Range(steps[k].sorted) = {n - q : q \in 1..p}
                 /\ InPass(steps, p, "swap") = {} =>
                      /\ k = last - 1
                      /\ steps[last].action = "complete"
                      /\ Range(steps[last].sorted) = 0..(n - 1)
                 /\ (InPass(steps, p, "swap") # {} /\ p < n - 1) =>
                      steps[k + 1].action = "compare"

\* an early exit that leaves two indices to the closing step
C25_Witness ==
  /\ lastOp = "start"
  /\ algorithm = "bubble-sort"
  /\ sortInput = <<1, 2, 3>>
  /\ Len(animationQueue) = 4
  /\ animationQueue[3].sorted = <<2>>
  /\ animationQueue[4].sorted = <<0, 1, 2>>

\* C26: one call of reset() on a visualization with an attached controller
\* emits exactly one reset notification.
C26_ResetNotifiesOnce ==
  (lastOp = "reset" /\ attached) => Emitted("reset") = 1

\* C27: once complete has been notified in a cycle, step(), pause() and
\* resume() notify nothing more and leave the machine completed, so that
\* complete is notified at most once per cycle.
C27_CompletedIsAbsorbing ==
  [][(/\ metrics.endTime # 0
      /\ lastOp' \in {"step", "pause", "resume"}) =>
        /\ state' = "completed"
        /\ events' = << >>]_vars

\* C28: when the array is replaced while the machine is playing or paused,
\* the next step executed comes from a list produced from the new array and
\* renders a snapshot holding the new array's values.
C28_StepsFollowInstalledArray ==
  [][(/\ lastOp = "generate"
      /\ state \in {"playing", "paused"}
      /\ lastOp' = "step"
      /\ Len(rendered') = Len(rendered) + 1) =>
        /\ sortInput' = array
        /\ SameMultiset(rendered'[Len(rendered')].array, array)]_vars

\* C29: between operations the cursor lies within 0..length of the list and
\* stepsExecuted equals the cursor; in idle the list is empty and the cursor
\* is 0.
C29_CursorInvariant ==
  /\ currentStepIndex >= 0
  /\ currentStepIndex <= Len(animationQueue)
  /\ metrics.stepsExecuted = currentStepIndex
  /\ state = "idle" => (animationQueue = << >> /\ currentStepIndex = 0)

C29_Witness ==
  /\ state = "paused"
  /\ currentStepIndex = Len(animationQueue)
  /\ metrics.stepsExecuted >= 3
  /\ metrics.endTime # 0

\* C30: start() called while paused does what resume() does: the machine
\* becomes playing, no list is produced, and the list, the cursor and the
\* metrics, startTime included, are left as they were.
C30_StartFromPausedIsResume ==
  [][(state = "paused" /\ lastOp' = "start") =>
       /\ \A now \in Times : StartOf(Cur, now) = ResumeOf(Cur)
       /\ state' = "playing"
       /\ animationQueue' = animationQueue
       /\ sortInput' = sortInput
       /\ result' = result
       /\ currentStepIndex' = currentStepIndex
       /\ metrics' = metrics
       /\ events' = <<StateChangeTo("playing")>>]_vars

\* start() has just resumed a cycle in which steps were executed
C30_Witness ==
  /\ lastOp = "start"
  /\ state = "playing"
  /\ currentStepIndex >= 2
  /\ currentStepIndex < Len(animationQueue)
  /\ metrics.startTime # 0
  /\ events = <<StateChangeTo("playing")>>

====
